---- MODULE Spec2Model ----
(***************************************************************************)
(* Model of the arena-backed LRU cache (src/src/cache.rs), its key=value   *)
(* persistence codec (src/src/persistence.rs) and the demonstration        *)
(* driver (src/src/bin/main.rs).                                           *)
(*                                                                         *)
(* Slot indices are 0-based as in the Rust code; Option<usize> is an       *)
(* integer with None == -1.  Strings are sequences of one-character        *)
(* strings so that formatting, line splitting and split_once('=') are      *)
(* computed character by character.                                        *)
(***************************************************************************)
EXTENDS Integers, Sequences, FiniteSets, TLC

VARIABLES
    cache,      \* the LruCache value: capacity, map, arena, head, tail
    file,       \* the file at `filepath`: its status and its characters
    pc,         \* position of the driver (main); "lib" when no driver runs
    op,         \* history: the last public operation, its inputs and result
    pre,        \* history: the cache just before the last operation
    touched,    \* history: keys in order of last touch, most recent first
    step,       \* driver: how many keys of data_sequence have been processed
    lastPut,    \* history: per key, the value of its most recent put
    saved,      \* history: the cache written by the last successful save
    loaded,     \* history: the cache as new_persistent returned it
    model       \* the abstract LRU run side by side: its sequence of pairs,
                \* most recent first, and the result of its last get

vars ==
    <<cache, file, pc, op, pre, touched, step, lastPut, saved, loaded, model>>

----------------------------------------------------------------------------
(* Bounds and input universes *)

MaxCap == 3

None == -1

NoVal == <<"<none>">>

Keys == {<<"A">>, <<"B">>, <<"C">>, <<"D">>}

Values == {<<"x">>, <<"y">>}

----------------------------------------------------------------------------
(* Node and LruCache (cache.rs) *)

Node(k, v, p, n) == [key |-> k, value |-> v, prev |-> p, next |-> n]

EmptyMap == [x \in {} |-> None]

\* HashMap::insert
map_insert(m, k, i) ==
    [x \in (DOMAIN m) \cup {k} |-> IF x = k THEN i ELSE m[x]]

\* HashMap::remove
map_remove(m, k) == [x \in (DOMAIN m) \ {k} |-> m[x]]

\* self.arena[i]
At(a, i) == a[i + 1]

\* self.arena[i].prev = p
SetPrev(a, i, p) == [a EXCEPT ![i + 1].prev = p]

\* self.arena[i].next = n
SetNext(a, i, n) == [a EXCEPT ![i + 1].next = n]

\* Vec::swap_remove(i): the last element takes slot i, the vector shrinks
swap_remove(a, i) ==
    LET n == Len(a) IN
    IF i = n - 1
    THEN SubSeq(a, 1, n - 1)
    ELSE [j \in 1..(n - 1) |-> IF j = i + 1 THEN a[n] ELSE a[j]]

\* Cache::new
new(capacity) ==
    [capacity |-> capacity, map |-> EmptyMap, arena |-> <<>>,
     head |-> None, tail |-> None]

\* Cache::len
len(c) == Len(c.arena)

\* move_to_head without the early return for the head slot
move_to_head_no_guard(c, index) ==
    LET prev_idx == At(c.arena, index).prev
        next_idx == At(c.arena, index).next
        a1 == IF prev_idx # None THEN SetNext(c.arena, prev_idx, next_idx)
              ELSE c.arena
        a2 == IF next_idx # None THEN SetPrev(a1, next_idx, prev_idx) ELSE a1
        tail1 == IF index = c.tail THEN prev_idx ELSE c.tail
        a3 == IF c.head # None THEN SetPrev(a2, c.head, index) ELSE a2
        a4 == SetNext(a3, index, c.head)
        a5 == SetPrev(a4, index, None)
    IN [c EXCEPT !.arena = a5, !.tail = tail1, !.head = index]

\* LruCache::move_to_head
move_to_head(c, index) ==
    IF index = c.head THEN c
    ELSE
      LET prev_idx == At(c.arena, index).prev
          next_idx == At(c.arena, index).next
          a1 == IF prev_idx # None THEN SetNext(c.arena, prev_idx, next_idx)
                ELSE c.arena
          a2 == IF next_idx # None THEN SetPrev(a1, next_idx, prev_idx) ELSE a1
          tail1 == IF index = c.tail THEN prev_idx ELSE c.tail
          a3 == IF c.head # None THEN SetPrev(a2, c.head, index) ELSE a2
          a4 == SetNext(a3, index, c.head)
          a5 == SetPrev(a4, index, None)
      IN [c EXCEPT !.arena = a5, !.tail = tail1, !.head = index]

\* the patching without the rebinding of the moved key in the map
patch_moved_no_rebind(c, tail_idx) ==
    IF tail_idx < Len(c.arena)
    THEN
      LET moved_key == At(c.arena, tail_idx).key
          prev == At(c.arena, tail_idx).prev
          next == At(c.arena, tail_idx).next
          a1 == IF prev # None THEN SetNext(c.arena, prev, tail_idx)
                ELSE c.arena
          a2 == IF next # None THEN SetPrev(a1, next, tail_idx) ELSE a1
          h1 == IF c.head = Len(c.arena) THEN tail_idx ELSE c.head
          t1 == IF c.tail = Len(c.arena) THEN tail_idx ELSE c.tail
      IN [c EXCEPT !.arena = a2, !.head = h1, !.tail = t1]
    ELSE c

\* the patching without the repair of tail
patch_moved_no_tail(c, tail_idx) ==
    IF tail_idx < Len(c.arena)
    THEN
      LET moved_key == At(c.arena, tail_idx).key
          m1 == map_insert(c.map, moved_key, tail_idx)
          prev == At(c.arena, tail_idx).prev
          next == At(c.arena, tail_idx).next
          a1 == IF prev # None THEN SetNext(c.arena, prev, tail_idx)
                ELSE c.arena
          a2 == IF next # None THEN SetPrev(a1, next, tail_idx) ELSE a1
          h1 == IF c.head = Len(c.arena) THEN tail_idx ELSE c.head
      IN [c EXCEPT !.map = m1, !.arena = a2, !.head = h1]
    ELSE c

\* the patching without the repair of head
patch_moved_no_head(c, tail_idx) ==
    IF tail_idx < Len(c.arena)
    THEN
      LET moved_key == At(c.arena, tail_idx).key
          m1 == map_insert(c.map, moved_key, tail_idx)
          prev == At(c.arena, tail_idx).prev
          next == At(c.arena, tail_idx).next
          a1 == IF prev # None THEN SetNext(c.arena, prev, tail_idx)
                ELSE c.arena
          a2 == IF next # None THEN SetPrev(a1, next, tail_idx) ELSE a1
          t1 == IF c.tail = Len(c.arena) THEN tail_idx ELSE c.tail
      IN [c EXCEPT !.map = m1, !.arena = a2, !.tail = t1]
    ELSE c

\* LruCache::remove_lru, step 3: the patching after swap_remove
patch_moved(c, tail_idx) ==
    IF tail_idx < Len(c.arena)
    THEN
      LET moved_key == At(c.arena, tail_idx).key
          m1 == map_insert(c.map, moved_key, tail_idx)
          prev == At(c.arena, tail_idx).prev
          next == At(c.arena, tail_idx).next
          a1 == IF prev # None THEN SetNext(c.arena, prev, tail_idx)
                ELSE c.arena
          a2 == IF next # None THEN SetPrev(a1, next, tail_idx) ELSE a1
          h1 == IF c.head = Len(c.arena) THEN tail_idx ELSE c.head
          t1 == IF c.tail = Len(c.arena) THEN tail_idx ELSE c.tail
      IN [c EXCEPT !.map = m1, !.arena = a2, !.head = h1, !.tail = t1]
    ELSE c

\* LruCache::remove_lru
remove_lru(c) ==
    IF c.tail # None
    THEN
      LET tail_idx == c.tail
          key_to_remove == At(c.arena, tail_idx).key
          m1 == map_remove(c.map, key_to_remove)
          t1 == At(c.arena, tail_idx).prev
          a1 == IF t1 # None THEN SetNext(c.arena, t1, None) ELSE c.arena
          h1 == IF t1 # None THEN c.head ELSE None
          a2 == swap_remove(a1, tail_idx)
      IN patch_moved([c EXCEPT !.map = m1, !.arena = a2, !.head = h1,
                               !.tail = t1], tail_idx)
    ELSE c

\* put, case 1, without the store of the new value
put_update_keep_value(c, key, value) == move_to_head(c, c.map[key])

\* put, case 1, without the promotion to head
put_update_no_promote(c, key, value) ==
    [c EXCEPT !.arena = [c.arena EXCEPT ![c.map[key] + 1].value = value]]

\* put, case 1: the key exists
put_update(c, key, value) ==
    LET index == c.map[key]
        a1 == [c.arena EXCEPT ![index + 1].value = value]
    IN move_to_head([c EXCEPT !.arena = a1], index)

\* the eviction test with > in place of >=
is_full_strict(c) == Len(c.arena) > c.capacity

\* put, case 2: the test that triggers eviction
is_full(c) == Len(c.arena) >= c.capacity

\* put, case 2, with the new node's next link left None
put_insert_unlinked(c, key, value) ==
    LET c1 == IF is_full(c) THEN remove_lru(c) ELSE c
        index == Len(c1.arena)
        node == Node(key, value, None, None)
        a1 == Append(c1.arena, node)
        m1 == map_insert(c1.map, key, index)
        a2 == IF c1.head # None THEN SetPrev(a1, c1.head, index) ELSE a1
        t1 == IF c1.tail = None THEN index ELSE c1.tail
    IN [c1 EXCEPT !.arena = a2, !.map = m1, !.head = index, !.tail = t1]

\* put, case 2: the key is new
put_insert(c, key, value) ==
    LET c1 == IF is_full(c) THEN remove_lru(c) ELSE c
        index == Len(c1.arena)
        node == Node(key, value, None, c1.head)
        a1 == Append(c1.arena, node)
        m1 == map_insert(c1.map, key, index)
        a2 == IF c1.head # None THEN SetPrev(a1, c1.head, index) ELSE a1
        t1 == IF c1.tail = None THEN index ELSE c1.tail
    IN [c1 EXCEPT !.arena = a2, !.map = m1, !.head = index, !.tail = t1]

\* Cache::put
put(c, key, value) ==
    IF key \in DOMAIN c.map
    THEN put_update(c, key, value)
    ELSE put_insert(c, key, value)

\* get, the hit branch, without the promotion to head
get_hit_no_promote(c, key) ==
    [cache |-> c, res |-> At(c.arena, c.map[key]).value]

\* get, the hit branch
get_hit(c, key) ==
    LET index == c.map[key]
        c1 == move_to_head(c, index)
    IN [cache |-> c1, res |-> At(c1.arena, index).value]

\* get, the miss branch, dropping the least recent entry
get_miss_evict(c, key) == [cache |-> remove_lru(c), res |-> NoVal]

\* get, the miss branch
get_miss(c, key) == [cache |-> c, res |-> NoVal]

\* Cache::get: the cache afterwards and the returned Option (NoVal is None)
get(c, key) ==
    IF key \in DOMAIN c.map THEN get_hit(c, key) ELSE get_miss(c, key)

----------------------------------------------------------------------------
(* Persistence codec (persistence.rs), for LruCache<String, String> *)

\* The characters that matter to the codec, each a one-character token
EQ == "="

LF == "<LF>"

CR == "<CR>"

\* a byte that is not valid UTF-8: BufRead::lines yields Err for its line
BAD == "<FF>"

\* writeln!(file, "{}={}", node.key, node.value)
format_line(node) == node.key \o <<EQ>> \o node.value \o <<LF>>

\* the traversal following next in place of prev
RECURSIVE write_entries_next(_, _)
write_entries_next(a, current_idx) ==
    IF current_idx = None THEN <<>>
    ELSE format_line(At(a, current_idx))
         \o write_entries_next(a, At(a, current_idx).next)

\* the characters of a sequence of lines, one after the other
RECURSIVE Flatten(_)
Flatten(ls) == IF ls = <<>> THEN <<>> ELSE Head(ls) \o Flatten(Tail(ls))

\* the traversal stopping at the entry that has no prev, before writing it
RECURSIVE save_lines_skip_head(_, _)
save_lines_skip_head(a, current_idx) ==
    IF current_idx = None \/ At(a, current_idx).prev = None THEN <<>>
    ELSE <<format_line(At(a, current_idx))>>
         \o save_lines_skip_head(a, At(a, current_idx).prev)

\* save_to_file: the while-let loop, one element per iteration: the line
\* written for the entry at current_idx, then on to its prev
RECURSIVE save_lines(_, _)
save_lines(a, current_idx) ==
    IF current_idx = None THEN <<>>
    ELSE <<format_line(At(a, current_idx))>>
         \o save_lines(a, At(a, current_idx).prev)

\* save_to_file: the traversal from tail along prev, one line per entry
write_entries(a, current_idx) == Flatten(save_lines(a, current_idx))

\* File::create: fails when the file cannot be created or truncated
create_fails(f) == f.kind = "PermissionDenied"

\* save_to_file: the io::Result and the file afterwards
save_to_file(c, f) ==
    IF create_fails(f)
    THEN [res |-> "Err", file |-> f]
    ELSE [res |-> "Ok",
          file |-> [kind |-> "Ok", content |-> write_entries(c.arena, c.tail)]]

\* BufRead::lines, per line: the line feed is dropped, and a carriage
\* return right before it
strip_cr(line) ==
    IF line # <<>> /\ line[Len(line)] = CR
    THEN SubSeq(line, 1, Len(line) - 1)
    ELSE line

\* BufRead::lines: the lines of the content; a last line without a line
\* feed is a line too
RECURSIVE lines_from(_, _)
lines_from(s, cur) ==
    IF s = <<>> THEN (IF cur = <<>> THEN <<>> ELSE <<cur>>)
    ELSE IF Head(s) = LF
         THEN <<strip_cr(cur)>> \o lines_from(Tail(s), <<>>)
         ELSE lines_from(Tail(s), Append(cur, Head(s)))

lines(content) == lines_from(content, <<>>)

\* `if let Ok(content) = line`: a line that is not UTF-8 is an Err
line_is_ok(line) == \A i \in 1..Len(line) : line[i] # BAD

has_eq(line) == \E i \in 1..Len(line) : line[i] = EQ

\* the parts around the last '=' of the line
split_once_last(line) ==
    LET i == CHOOSE j \in 1..Len(line) :
                 line[j] = EQ /\ \A h \in (j + 1)..Len(line) : line[h] # EQ
    IN [k_str |-> SubSeq(line, 1, i - 1),
        v_str |-> SubSeq(line, i + 1, Len(line))]

\* str::split_once('='): the parts around the first '='
split_once(line) ==
    LET i == CHOOSE j \in 1..Len(line) :
                 line[j] = EQ /\ \A h \in 1..(j - 1) : line[h] # EQ
    IN [k_str |-> SubSeq(line, 1, i - 1),
        v_str |-> SubSeq(line, i + 1, Len(line))]

\* String::from_str: never fails, the characters are copied
from_str(str) == [i \in 1..Len(str) |-> str[i]]

\* new_persistent: the body of the loop over the lines
load_line(c, line) ==
    IF line_is_ok(line) /\ has_eq(line)
    THEN put(c, from_str(split_once(line).k_str),
                from_str(split_once(line).v_str))
    ELSE c

\* the loop ending at the first line that is not a record
RECURSIVE load_lines_stop_on_bad(_, _)
load_lines_stop_on_bad(c, ls) ==
    IF ls = <<>> THEN c
    ELSE IF line_is_ok(Head(ls)) /\ has_eq(Head(ls))
         THEN load_lines_stop_on_bad(load_line(c, Head(ls)), Tail(ls))
         ELSE c

\* new_persistent: the loop over the lines
RECURSIVE load_lines(_, _)
load_lines(c, ls) ==
    IF ls = <<>> THEN c
    ELSE load_lines(load_line(c, Head(ls)), Tail(ls))

\* new_persistent: what a failed File::open leads to
open_failed(capacity, f) == [tag |-> "Ok", cache |-> new(capacity)]

\* new_persistent: the io::Result and the cache in it
new_persistent(capacity, f) ==
    IF f.kind = "Ok"
    THEN [tag |-> "Ok",
          cache |-> load_lines(new(capacity), lines(f.content))]
    ELSE open_failed(capacity, f)

----------------------------------------------------------------------------
(* History bookkeeping *)

RECURSIVE Without(_, _)
Without(s, k) ==
    IF s = <<>> THEN <<>>
    ELSE IF Head(s) = k THEN Without(Tail(s), k)
    ELSE <<Head(s)>> \o Without(Tail(s), k)

Touch(k) == <<k>> \o Without(touched, k)

NoCache == [capacity |-> 0, map |-> EmptyMap, arena |-> <<>>,
            head |-> None, tail |-> None]

NoPre == [cache |-> NoCache, touched |-> <<>>]

Snapshot == [cache |-> cache, touched |-> touched]

\* The abstract LRU: a duplicate-free sequence of (key, value) pairs, most
\* recently used first
abs_without(s, k) == SelectSeq(s, LAMBDA e : e.key # k)

\* put moves or inserts the key at the front and drops the last element
\* when the sequence is over capacity
abs_put(s, capacity, k, v) ==
    LET t == <<[key |-> k, value |-> v]>> \o abs_without(s, k) IN
    IF Len(t) > capacity THEN SubSeq(t, 1, capacity) ELSE t

\* a get that hits moves the key to the front; a get that misses does nothing
abs_get(s, k) ==
    IF \E i \in 1..Len(s) : s[i].key = k
    THEN LET e == s[CHOOSE i \in 1..Len(s) : s[i].key = k] IN
         [seq |-> <<e>> \o abs_without(s, k), res |-> e.value]
    ELSE [seq |-> s, res |-> NoVal]

NoModel == [seq |-> <<>>, res |-> NoVal]

NoOp == [name |-> "none", key |-> NoVal, value |-> NoVal, res |-> NoVal]

----------------------------------------------------------------------------
(* The library used directly: any sequence of put and get *)

Init ==
    /\ \E c \in 1..MaxCap : cache = new(c)
    /\ file = [kind |-> "NotFound", content |-> <<>>]
    /\ pc = "lib"
    /\ step = 0
    /\ op = [NoOp EXCEPT !.name = "new"]
    /\ pre = NoPre
    /\ touched = <<>>
    /\ lastPut = [k \in Keys |-> NoVal]
    /\ saved = NoCache
    /\ loaded = NoCache
    /\ model = NoModel

Put(k, v) ==
    /\ cache' = put(cache, k, v)
    /\ op' = [name |-> "put", key |-> k, value |-> v, res |-> NoVal]
    /\ pre' = Snapshot
    /\ touched' = Touch(k)
    /\ lastPut' = [lastPut EXCEPT ![k] = v]
    /\ model' = [seq |-> abs_put(model.seq, cache.capacity, k, v),
                 res |-> NoVal]
    /\ UNCHANGED <<file, pc, step, saved, loaded>>

Get(k) ==
    LET r == get(cache, k) IN
    /\ cache' = r.cache
    /\ op' = [name |-> "get", key |-> k, value |-> NoVal, res |-> r.res]
    /\ pre' = Snapshot
    /\ touched' = IF r.res # NoVal THEN Touch(k) ELSE touched
    /\ model' = abs_get(model.seq, k)
    /\ UNCHANGED <<file, pc, step, lastPut, saved, loaded>>

Next ==
    \/ \E k \in Keys, v \in Values : Put(k, v)
    \/ \E k \in Keys : Get(k)

Spec == Init /\ [][Next]_vars

----------------------------------------------------------------------------
(* The arena under eviction: capacities up to MaxArenaCap, more keys than  *)
(* slots, so that the relocated entry can be head, tail or interior        *)

MaxArenaCap == 4

AKeys == {<<"A">>, <<"B">>, <<"C">>, <<"D">>, <<"E">>}

\* one value per key, so that a value under the wrong key shows
AValue(k) == <<"v">> \o k

ArenaInit ==
    /\ \E c \in 1..MaxArenaCap : cache = new(c)
    /\ file = [kind |-> "NotFound", content |-> <<>>]
    /\ pc = "lib"
    /\ step = 0
    /\ op = [NoOp EXCEPT !.name = "new"]
    /\ pre = NoPre
    /\ touched = <<>>
    /\ lastPut = [k \in Keys |-> NoVal]
    /\ saved = NoCache
    /\ loaded = NoCache
    /\ model = NoModel

ArenaPut(k, v) ==
    /\ cache' = put(cache, k, v)
    /\ op' = [name |-> "put", key |-> k, value |-> v, res |-> NoVal]
    /\ pre' = Snapshot
    /\ UNCHANGED <<file, pc, step, touched, lastPut, saved, loaded, model>>

ArenaGet(k) ==
    LET r == get(cache, k) IN
    /\ cache' = r.cache
    /\ op' = [name |-> "get", key |-> k, value |-> NoVal, res |-> r.res]
    /\ pre' = Snapshot
    /\ UNCHANGED <<file, pc, step, touched, lastPut, saved, loaded, model>>

ArenaNext ==
    \/ \E k \in AKeys : ArenaPut(k, AValue(k))
    \/ \E k \in AKeys : ArenaGet(k)

SpecArena == ArenaInit /\ [][ArenaNext]_vars

----------------------------------------------------------------------------
(* Files found at `filepath` when a program starts *)

MaxLines == 3

SampleLines ==
    { <<"A", EQ, "x", LF>>,
      <<"B", EQ, "y", LF>>,
      <<"A", EQ, "y", CR, LF>>,
      <<"j", "u", "n", "k", LF>>,
      <<"C", EQ, BAD, LF>>,
      <<"D", EQ, "z">> }

RECURSIVE Contents(_)
Contents(n) ==
    IF n = 0 THEN {<<>>}
    ELSE Contents(n - 1)
         \cup {c \o l : c \in Contents(n - 1), l \in SampleLines}

InitFiles ==
    {[kind |-> "NotFound", content |-> <<>>],
     [kind |-> "PermissionDenied", content |-> <<>>]}
    \cup {[kind |-> "Ok", content |-> c] : c \in Contents(MaxLines)}

----------------------------------------------------------------------------
(* Loading: new_persistent on whatever file is there *)

LoadInit ==
    /\ cache = NoCache
    /\ file \in InitFiles
    /\ pc = "start"
    /\ step = 0
    /\ op = NoOp
    /\ pre = NoPre
    /\ touched = <<>>
    /\ lastPut = [k \in Keys |-> NoVal]
    /\ saved = NoCache
    /\ loaded = NoCache
    /\ model = NoModel

Load(capacity) ==
    LET r == new_persistent(capacity, file) IN
    /\ pc = "start"
    /\ cache' = r.cache
    /\ loaded' = r.cache
    /\ op' = [NoOp EXCEPT !.name = "new_persistent", !.res = r.tag]
    /\ pc' = "loaded"
    /\ UNCHANGED <<file, step, pre, touched, lastPut, saved, model>>

LoadNext == \E c \in 1..MaxCap : Load(c)

SpecLoad == LoadInit /\ [][LoadNext]_vars

----------------------------------------------------------------------------
(* Round trip: build a cache, save_to_file, new_persistent *)

MaxSavedCap == 2

PKeys == {<<"A">>, <<"B">>, <<"A", EQ>>, <<"A", LF>>}

PValues == {<<"x">>, <<EQ, "x">>, <<"x", CR>>, <<"x", LF, "y">>}

RoundTripInit ==
    /\ \E c \in 1..MaxSavedCap : cache = new(c)
    /\ file \in {[kind |-> "NotFound", content |-> <<>>],
                 [kind |-> "PermissionDenied", content |-> <<>>]}
    /\ pc = "lib"
    /\ step = 0
    /\ op = [NoOp EXCEPT !.name = "new"]
    /\ pre = NoPre
    /\ touched = <<>>
    /\ lastPut = [k \in Keys |-> NoVal]
    /\ saved = NoCache
    /\ loaded = NoCache
    /\ model = NoModel

Store(k, v) ==
    /\ pc = "lib"
    /\ cache' = put(cache, k, v)
    /\ op' = [NoOp EXCEPT !.name = "put"]
    /\ UNCHANGED <<file, pc, step, pre, touched, lastPut, saved, loaded, model>>

Lookup(k) ==
    LET r == get(cache, k) IN
    /\ pc = "lib"
    /\ cache' = r.cache
    /\ op' = [NoOp EXCEPT !.name = "get"]
    /\ UNCHANGED <<file, pc, step, pre, touched, lastPut, saved, loaded, model>>

Save ==
    LET r == save_to_file(cache, file) IN
    /\ pc = "lib"
    /\ file' = r.file
    /\ saved' = IF r.res = "Ok" THEN cache ELSE saved
    /\ op' = [NoOp EXCEPT !.name = "save_to_file", !.res = r.res]
    /\ pc' = "saved"
    /\ UNCHANGED <<cache, step, pre, touched, lastPut, loaded, model>>

Reload(capacity) ==
    LET r == new_persistent(capacity, file) IN
    /\ pc = "saved"
    /\ cache' = r.cache
    /\ loaded' = r.cache
    /\ op' = [NoOp EXCEPT !.name = "new_persistent", !.res = r.tag]
    /\ pc' = "loaded"
    /\ UNCHANGED <<file, step, pre, touched, lastPut, saved, model>>

RoundTripNext ==
    \/ \E k \in PKeys, v \in PValues : Store(k, v)
    \/ \E k \in PKeys : Lookup(k)
    \/ Save
    \/ \E c \in 1..MaxSavedCap : Reload(c)

SpecRoundTrip == RoundTripInit /\ [][RoundTripNext]_vars

----------------------------------------------------------------------------
(* The driver (main.rs) *)

DriverCap == 3

data_sequence == <<<<"A">>, <<"B">>, <<"C">>, <<"D">>, <<"B">>, <<"A">>, <<"E">>>>

\* format!("value_of_{}", key)
value_of(key) == <<"v", "a", "l", "u", "e", "_", "o", "f", "_">> \o key

DriverInit ==
    /\ cache = NoCache
    /\ file \in InitFiles
    /\ pc = "start"
    /\ step = 0
    /\ op = NoOp
    /\ pre = NoPre
    /\ touched = <<>>
    /\ lastPut = [k \in Keys |-> NoVal]
    /\ saved = NoCache
    /\ loaded = NoCache
    /\ model = NoModel

\* LruCache::new_persistent(3, filename).expect(..)
DriverLoad ==
    LET r == new_persistent(DriverCap, file) IN
    /\ pc = "start"
    /\ cache' = r.cache
    /\ loaded' = r.cache
    /\ op' = [NoOp EXCEPT !.name = "new_persistent", !.res = r.tag]
    /\ pc' = IF r.tag = "Ok" THEN "loop" ELSE "panicked"
    /\ UNCHANGED <<file, step, pre, touched, lastPut, saved, model>>

\* the body of the loop for one key: get, and put on a miss
driver_iter(c, key) ==
    LET r == get(c, key) IN
    IF r.res # NoVal
    THEN r
    ELSE [cache |-> put(r.cache, key, value_of(key)), res |-> NoVal]

DriverIter ==
    LET key == data_sequence[step + 1]
        r == driver_iter(cache, key)
    IN
    /\ pc = "loop"
    /\ cache' = r.cache
    /\ op' = [name |-> "iter", key |-> key, value |-> NoVal, res |-> r.res]
    /\ pre' = Snapshot
    /\ step' = step + 1
    /\ pc' = IF step + 1 = Len(data_sequence) THEN "report" ELSE "loop"
    /\ UNCHANGED <<file, touched, lastPut, saved, loaded, model>>

\* the two final get calls inside println!, "B" then "A"
DriverReport ==
    LET r1 == get(cache, <<"B">>)
        r2 == get(r1.cache, <<"A">>)
    IN
    /\ pc = "report"
    /\ cache' = r2.cache
    /\ op' = [name |-> "report", key |-> <<"A">>, value |-> r1.res,
              res |-> r2.res]
    /\ pre' = Snapshot
    /\ pc' = "save"
    /\ UNCHANGED <<file, step, touched, lastPut, saved, loaded, model>>

\* cache.save_to_file(filename).expect(..)
DriverSave ==
    LET r == save_to_file(cache, file) IN
    /\ pc = "save"
    /\ file' = r.file
    /\ saved' = IF r.res = "Ok" THEN cache ELSE saved
    /\ op' = [NoOp EXCEPT !.name = "save_to_file", !.res = r.res]
    /\ pc' = IF r.res = "Ok" THEN "done" ELSE "panicked"
    /\ UNCHANGED <<cache, step, pre, touched, lastPut, loaded, model>>

DriverNext ==
    \/ DriverLoad
    \/ DriverIter
    \/ DriverReport
    \/ DriverSave

SpecDriver == DriverInit /\ [][DriverNext]_vars

----------------------------------------------------------------------------
(* Observations used by the properties *)

Min(a, b) == IF a < b THEN a ELSE b

\* The entries met by following next links from slot idx, at most fuel of them
RECURSIVE Walk(_, _, _)
Walk(a, idx, fuel) ==
    IF fuel = 0 \/ idx \notin 0..(Len(a) - 1) THEN <<>>
    ELSE <<[key |-> At(a, idx).key, value |-> At(a, idx).value]>>
         \o Walk(a, At(a, idx).next, fuel - 1)

\* Head-to-tail sequence of (key, value) pairs
Order(c) == Walk(c.arena, c.head, Len(c.arena))

KeyOrder(c) == [i \in 1..Len(Order(c)) |-> Order(c)[i].key]

\* The keys a lookup finds
KeySet(c) == DOMAIN c.map

\* The key stored in the head slot, NoVal when there is none
HeadKey(c) == IF c.head = None THEN NoVal ELSE At(c.arena, c.head).key

\* The key stored in the slot the head's next link names
SuccessorKey(c) ==
    IF c.head = None \/ At(c.arena, c.head).next = None THEN NoVal
    ELSE At(c.arena, At(c.arena, c.head).next).key

\* Position of k in the touch history t (1 = most recent)
PosIn(t, k) == CHOOSE i \in 1..Len(t) : t[i] = k

\* Among the keys S, the one touched longest ago according to t
LeastRecent(S, t) ==
    CHOOSE k \in S : \A j \in S : PosIn(t, j) <= PosIn(t, k)

\* The cap most recently touched keys of the history t
Live(t, cap) == {t[i] : i \in 1..Min(cap, Len(t))}

IsHit == op.name = "get" /\ op.res # NoVal

IsMiss == op.name = "get" /\ op.res = NoVal

IsNewPut == op.name = "put" /\ op.key \notin KeySet(pre.cache)

IsUpdatePut == op.name = "put" /\ op.key \in KeySet(pre.cache)

WasFull == len(pre.cache) = pre.cache.capacity

----------------------------------------------------------------------------
(* C1: after every put and get on a cache made by new(c), c > 0, the       *)
(* number of entries is at most the capacity.                              *)
CapacityInvariant == len(cache) <= cache.capacity

\* a put of a new key into a full cache has just run
CapacityWitness ==
    /\ IsNewPut /\ WasFull
    /\ len(cache) = cache.capacity
    /\ cache.capacity >= 2

(* C2: a put of a new key into a full cache removes exactly the key that   *)
(* was touched longest ago (by a put or by a get that hit), keeps every    *)
(* other key and admits the new one; below capacity it removes nothing.    *)
EvictionCorrect ==
    IsNewPut =>
        IF WasFull
        THEN KeySet(cache) =
                (KeySet(pre.cache)
                    \ {LeastRecent(KeySet(pre.cache), pre.touched)})
                \cup {op.key}
        ELSE KeySet(cache) = KeySet(pre.cache) \cup {op.key}

\* an eviction whose victim is not the oldest inserted key: a get that hit
\* changed who is least recent
EvictionWitness ==
    /\ IsNewPut /\ WasFull
    /\ cache.capacity >= 2
    /\ At(pre.cache.arena, 0).key \in KeySet(cache)
    /\ Cardinality(KeySet(cache)) = cache.capacity

(* C3 as stated: after a get that hits or a put on K, K is the head, and   *)
(* the key that was head before, when it differs from K, is the entry K's  *)
(* next link reaches.                                                      *)
RecencyAsStated ==
    (IsHit \/ op.name = "put") =>
        /\ HeadKey(cache) = op.key
        /\ (pre.cache.head # None /\ HeadKey(pre.cache) # op.key)
              => SuccessorKey(cache) = HeadKey(pre.cache)

(* C3 amended: the same, the successor part only when the previous head is *)
(* still in the cache; it is missing only when a put of a new key evicted  *)
(* it, which happens only at capacity 1.                                   *)
RecencyCorrect ==
    (IsHit \/ op.name = "put") =>
        /\ HeadKey(cache) = op.key
        /\ (/\ pre.cache.head # None
            /\ HeadKey(pre.cache) # op.key
            /\ HeadKey(pre.cache) \in KeySet(cache))
              => SuccessorKey(cache) = HeadKey(pre.cache)
        /\ (/\ pre.cache.head # None
            /\ HeadKey(pre.cache) \notin KeySet(cache))
              => (cache.capacity = 1 /\ IsNewPut)

\* a key that was the tail of a full cache has been promoted over the head
RecencyWitness ==
    /\ IsHit
    /\ len(cache) = cache.capacity /\ cache.capacity >= 3
    /\ At(pre.cache.arena, pre.cache.tail).key = op.key
    /\ SuccessorKey(cache) = HeadKey(pre.cache)

(* C4: get(k) returns the value of the most recent put(k, v) when k is in  *)
(* the cache, and None when k was never put or was evicted since; it never *)
(* returns another key's value.  "In the cache" is read off the history:   *)
(* k is among the capacity most recently touched keys.                     *)
GetReturnsLastPut ==
    op.name = "get" =>
        op.res = IF op.key \in Live(pre.touched, cache.capacity)
                 THEN lastPut[op.key]
                 ELSE NoVal

\* a hit, after at least one eviction, on a key that sits in slot 0 without
\* being the oldest insertion, while another key holds a different value
GetWitness ==
    /\ IsHit
    /\ cache.capacity >= 2
    /\ Len(touched) > cache.capacity
    /\ cache.map[op.key] = 0
    /\ \E k \in KeySet(cache) : k # op.key /\ lastPut[k] # op.res

(* C5: a get that misses changes nothing: map, arena, links, head, tail    *)
(* and len() are as before.                                                *)
MissChangesNothing ==
    (op.name = "get" /\ op.key \notin KeySet(pre.cache)) =>
        /\ op.res = NoVal
        /\ cache = pre.cache

\* a miss on a full cache, on a key that was put earlier and evicted
MissWitness ==
    /\ IsMiss
    /\ len(cache) = cache.capacity
    /\ lastPut[op.key] # NoVal

(* C6: put(k, v) on a key already present replaces its value, makes it the *)
(* head, evicts nothing, and leaves the key set, len() and the order and   *)
(* values of the other entries as they were.                               *)
UpdateInPlace ==
    IsUpdatePut =>
        /\ Order(cache) =
              <<[key |-> op.key, value |-> op.value]>>
              \o SelectSeq(Order(pre.cache), LAMBDA e : e.key # op.key)
        /\ KeySet(cache) = KeySet(pre.cache)
        /\ len(cache) = len(pre.cache)

\* an update of an interior entry of a full cache with a different value
UpdateWitness ==
    /\ IsUpdatePut /\ WasFull
    /\ cache.capacity >= 3
    /\ pre.cache.map[op.key] # pre.cache.head
    /\ pre.cache.map[op.key] # pre.cache.tail
    /\ At(pre.cache.arena, pre.cache.map[op.key]).value # op.value

(* C7 as stated: for any reachable cache state, save_to_file followed by   *)
(* new_persistent with the same capacity gives the same head-to-tail key   *)
(* order and the same value for each key.                                  *)
RoundTripAsStated ==
    (pc = "loaded" /\ saved # NoCache /\ cache.capacity = saved.capacity)
        => Order(cache) = Order(saved)

HasChar(str, ch) == \E i \in 1..Len(str) : str[i] = ch

EndsWith(str, ch) == str # <<>> /\ str[Len(str)] = ch

\* every entry of c survives the key=value text format
Representable(c) ==
    \A i \in 1..Len(c.arena) :
        /\ ~HasChar(c.arena[i].key, EQ)
        /\ ~HasChar(c.arena[i].key, LF)
        /\ ~HasChar(c.arena[i].value, LF)
        /\ ~EndsWith(c.arena[i].value, CR)

(* C7 amended: the same, for cache states in which no key contains '=' or  *)
(* a line feed and no value contains a line feed or ends with a carriage   *)
(* return, and when save_to_file returned Ok.                              *)
RoundTripCorrect ==
    (/\ pc = "loaded" /\ saved # NoCache
     /\ cache.capacity = saved.capacity
     /\ Representable(saved))
        => Order(cache) = Order(saved)

\* a full cache of two or more entries, one of whose values holds '=', whose
\* head sits in slot 0 after a relocation, saved and loaded again
RoundTripWitness ==
    /\ pc = "loaded" /\ saved # NoCache
    /\ cache.capacity = saved.capacity
    /\ Representable(saved)
    /\ len(saved) = saved.capacity /\ saved.capacity >= 2
    /\ saved.head = 0
    /\ \E i \in 1..Len(saved.arena) : HasChar(saved.arena[i].value, EQ)
    /\ len(cache) = len(saved)

(* C9: new_persistent returns an I/O error, not Ok(cache), when the file   *)
(* cannot be opened for a reason other than not existing.                  *)
OpenErrorPropagates ==
    (op.name = "new_persistent" /\ file.kind = "PermissionDenied")
        => op.res = "Err"

\* a line that is not a key=value record
IsBadLine(line) == ~(line_is_ok(line) /\ has_eq(line))

IsCorrupt(f) ==
    /\ f.kind = "Ok"
    /\ \E i \in 1..Len(lines(f.content)) : IsBadLine(lines(f.content)[i])

(* C10: when the file does not exist or is corrupt (some line is not a     *)
(* parseable key=value record), new_persistent returns Ok with an empty    *)
(* cache: len() = 0, head and tail None.                                   *)
CorruptOrMissingGivesEmpty ==
    (op.name = "new_persistent" /\ (file.kind = "NotFound" \/ IsCorrupt(file)))
        => /\ op.res = "Ok"
           /\ len(cache) = 0
           /\ cache.head = None /\ cache.tail = None

ScenarioOrders ==
    << <<<<"A">>>>,
       <<<<"B">>, <<"A">>>>,
       <<<<"C">>, <<"B">>, <<"A">>>>,
       <<<<"D">>, <<"C">>, <<"B">>>>,
       <<<<"B">>, <<"D">>, <<"C">>>>,
       <<<<"A">>, <<"B">>, <<"D">>>>,
       <<<<"E">>, <<"A">>, <<"B">>>> >>

\* the loop has processed at least one key of a run that started empty
InScenario ==
    /\ pc \in {"loop", "report"}
    /\ step >= 1
    /\ len(loaded) = 0

IsHeadGet ==
    /\ op.name = "get"
    /\ pre.cache.head # None
    /\ op.key = HeadKey(pre.cache)

\* get on the head key returns its value and changes nothing
HeadGetChangesNothing ==
    IsHeadGet =>
        /\ op.res = At(pre.cache.arena, pre.cache.head).value
        /\ cache = pre.cache

\* a get that hit, followed at once by a get on the same key
RepeatedHit ==
    (IsHit /\ op'.name = "get" /\ op'.key = op.key) =>
        /\ op'.res = op.res
        /\ cache' = cache

(* C11: a second get(k) right after a get(k) that hit returns the same     *)
(* value and leaves len(), the order, all links, head and tail as the      *)
(* first get left them; more generally a get on the key that is already    *)
(* the head changes nothing.                                               *)
IdempotentHit == [][RepeatedHit]_vars /\ []HeadGetChangesNothing

\* a get on the head of a full cache of two or more entries, the head
\* having been promoted from the tail slot order by an earlier hit
IdempotentWitness ==
    /\ IsHeadGet
    /\ len(cache) = cache.capacity /\ cache.capacity >= 2
    /\ cache.head # len(cache) - 1
    /\ cache = pre.cache

\* the keys stored in the arena
ArenaKeys(c) == {c.arena[i].key : i \in 1..Len(c.arena)}

SlotOk(c, i) == i \in 0..(Len(c.arena) - 1)

IndexConsistent(c) ==
    /\ DOMAIN c.map = ArenaKeys(c)
    /\ \A i, j \in 1..Len(c.arena) :
          i # j => c.arena[i].key # c.arena[j].key
    /\ Cardinality(DOMAIN c.map) = Len(c.arena)
    /\ \A k \in DOMAIN c.map :
          /\ SlotOk(c, c.map[k])
          /\ At(c.arena, c.map[k]).key = k

(* C12: after new, put and get, in any sequence, the map's key set is the  *)
(* set of keys in the arena, no key is in two slots, map.len() equals      *)
(* arena.len(), and every map[k] is a slot below arena.len() that stores   *)
(* k; also right after an eviction that relocated the last slot.           *)
IndexInvariant == IndexConsistent(cache)

\* an eviction has just moved the last physical slot into the freed one
Relocated ==
    /\ IsNewPut /\ WasFull
    /\ pre.cache.tail # len(pre.cache) - 1

IndexWitness ==
    /\ Relocated
    /\ cache.capacity >= 3
    /\ \E k \in KeySet(cache) \cap KeySet(pre.cache) :
          cache.map[k] # pre.cache.map[k]

\* the slots met from idx along next (dir = "next") or prev, at most fuel
RECURSIVE SlotWalk(_, _, _, _)
SlotWalk(c, idx, dir, fuel) ==
    IF fuel = 0 \/ ~SlotOk(c, idx) THEN <<>>
    ELSE <<idx>> \o SlotWalk(c,
                             IF dir = "next" THEN At(c.arena, idx).next
                             ELSE At(c.arena, idx).prev,
                             dir, fuel - 1)

Reverse(s) == [i \in 1..Len(s) |-> s[Len(s) + 1 - i]]

ChainConsistent(c) ==
    LET n == Len(c.arena)
        fwd == SlotWalk(c, c.head, "next", n + 1)
        bwd == SlotWalk(c, c.tail, "prev", n + 1)
    IN
    /\ (c.head = None) <=> (n = 0)
    /\ (c.tail = None) <=> (n = 0)
    /\ \A i \in 1..n :
          /\ c.arena[i].prev = None \/ SlotOk(c, c.arena[i].prev)
          /\ c.arena[i].next = None \/ SlotOk(c, c.arena[i].next)
    /\ n > 0 =>
          /\ SlotOk(c, c.head) /\ SlotOk(c, c.tail)
          /\ At(c.arena, c.head).prev = None
          /\ At(c.arena, c.tail).next = None
          /\ fwd[Len(fwd)] = c.tail
          /\ bwd[Len(bwd)] = c.head
    /\ Len(fwd) = n
    /\ {fwd[i] : i \in 1..Len(fwd)} = 0..(n - 1)
    /\ bwd = Reverse(fwd)

(* C13: after every public operation, the next links from head visit every *)
(* slot exactly once and end at tail, the prev links from tail visit the   *)
(* same slots in reverse and end at head, head has no prev and tail no     *)
(* next, every link is a slot below arena.len(), and head and tail are     *)
(* None exactly when the arena is empty.                                   *)
ChainInvariant == ChainConsistent(cache)

\* an eviction has just relocated the entry that became the new tail
ChainWitness ==
    /\ Relocated
    /\ cache.capacity >= 3
    /\ At(pre.cache.arena, pre.cache.tail).prev = len(pre.cache) - 1

\* remove_lru applied to a cache drops the last pair of its order only
DropsTailOnly(c) ==
    LET o == Order(c) IN
    /\ Order(remove_lru(c)) = SubSeq(o, 1, Len(o) - 1)
    /\ len(remove_lru(c)) = len(c) - 1

(* C14: remove_lru changes the logical content only by dropping the tail:  *)
(* in every reachable full state, wherever the tail slot lies and whether  *)
(* the relocated last slot is the head, the new tail or an interior entry, *)
(* the head-to-tail (key, value) sequence after eviction is the one before *)
(* without its last element.                                               *)
EvictionDropsTail ==
    /\ len(cache) = cache.capacity => DropsTailOnly(cache)
    /\ (IsNewPut /\ WasFull) =>
          Order(cache) =
              <<[key |-> op.key, value |-> op.value]>>
              \o SubSeq(Order(pre.cache), 1, len(pre.cache) - 1)

\* an eviction has just relocated an interior entry: the last slot was
\* neither the head nor the entry before the tail
EvictionInteriorWitness ==
    /\ Relocated
    /\ pre.cache.head # len(pre.cache) - 1
    /\ At(pre.cache.arena, pre.cache.tail).prev # len(pre.cache) - 1
    /\ len(cache) = cache.capacity

\* the (key, value) pairs of the lines of f that hold '=', in file order
RECURSIVE PairsOf(_)
PairsOf(ls) ==
    IF ls = <<>> THEN <<>>
    ELSE IF has_eq(Head(ls))
         THEN <<[key |-> split_once(Head(ls)).k_str,
                 value |-> split_once(Head(ls)).v_str]>> \o PairsOf(Tail(ls))
         ELSE PairsOf(Tail(ls))

\* every line of the file can be read as text
AllLinesReadable(f) ==
    \A i \in 1..Len(lines(f.content)) : line_is_ok(lines(f.content)[i])

\* the positions of ps that are the last occurrence of their key
LastPositions(ps) ==
    {i \in 1..Len(ps) : \A j \in (i + 1)..Len(ps) : ps[j].key # ps[i].key}

\* a set of numbers as a descending sequence
RECURSIVE Descending(_)
Descending(S) ==
    IF S = {} THEN <<>>
    ELSE LET m == CHOOSE x \in S : \A y \in S : y <= x
         IN <<m>> \o Descending(S \ {m})

\* the cap most recently listed distinct keys of ps, most recent first,
\* each with the value of its last listing
ExpectedAfterLoad(ps, cap) ==
    LET d == Descending(LastPositions(ps))
    IN [i \in 1..Min(cap, Len(d)) |-> ps[d[i]]]

\* put called for each pair in turn
RECURSIVE ReplayPuts(_, _)
ReplayPuts(c, ps) ==
    IF ps = <<>> THEN c
    ELSE ReplayPuts(put(c, Head(ps).key, Head(ps).value), Tail(ps))

IsLoadOfFile ==
    /\ op.name = "new_persistent"
    /\ file.kind = "Ok"
    /\ AllLinesReadable(file)

TraversalOk(c) ==
    LET ls == save_lines(c.arena, c.tail)
        o == Order(c)
    IN
    /\ Len(ls) = len(c)
    /\ Len(o) = len(c)
    /\ \A i \in 1..Len(ls) : ls[i] = format_line(o[Len(o) + 1 - i])
    /\ len(c) = 0 => ls = <<>>

(* C16: in every reachable cache state the loop of save_to_file ends after *)
(* exactly len() iterations, having written one key=value line per entry,  *)
(* each once, least recently used first and head last; it leaves the cache *)
(* unchanged; on an empty cache it writes no line.                         *)
SaveTraversal ==
    /\ TraversalOk(cache)
    /\ (op.name = "save_to_file" /\ op.res = "Ok") =>
          /\ file.kind = "Ok"
          /\ file.content = Flatten(save_lines(cache.arena, cache.tail))
          /\ cache = saved
          /\ len(cache) = 0 => file.content = <<>>

\* a full cache of two entries whose head sits in slot 0 has been saved
SaveWitness ==
    /\ op.name = "save_to_file" /\ op.res = "Ok"
    /\ len(cache) = cache.capacity /\ cache.capacity >= 2
    /\ cache.head = 0
    /\ Len(lines(file.content)) >= 2

\* cache c holds key k with value v
Holds(c, k, v) ==
    k \in DOMAIN c.map /\ At(c.arena, c.map[k]).value = v

\* the cache was saved with success and a cache was then loaded from the file
IsReloadOfSaved == pc = "loaded" /\ saved # NoCache /\ op.res = "Ok"

(* C17 as stated: an entry whose key contains '=' or whose value contains  *)
(* '=' is not reproduced by save_to_file followed by new_persistent: after *)
(* the reload the cache does not hold the original key with the original   *)
(* value.                                                                  *)
EqNotReproducedAsStated ==
    IsReloadOfSaved =>
        \A i \in 1..Len(saved.arena) :
            LET n == saved.arena[i] IN
            (HasChar(n.key, EQ) \/ HasChar(n.value, EQ))
                => ~Holds(cache, n.key, n.value)

(* C17 amended: an entry whose key contains '=' is not reproduced by       *)
(* save_to_file followed by new_persistent, and no key of the reloaded     *)
(* cache contains '=': a line is split at its first '=', so '=' in the key *)
(* moves the rest of the key into the value, while '=' in the value alone  *)
(* stays in the value.                                                     *)
EqInKeyNotReproduced ==
    IsReloadOfSaved =>
        /\ \A i \in 1..Len(saved.arena) :
               HasChar(saved.arena[i].key, EQ)
                   => ~Holds(cache, saved.arena[i].key, saved.arena[i].value)
        /\ \A k \in KeySet(cache) : ~HasChar(k, EQ)

\* a saved entry whose key contains '=' has been read back as another entry
EqInKeyWitness ==
    /\ IsReloadOfSaved
    /\ cache.capacity = saved.capacity
    /\ \E i \in 1..Len(saved.arena) :
           LET n == saved.arena[i] IN
           /\ HasChar(n.key, EQ) /\ ~HasChar(n.key, LF)
           /\ ~HasChar(n.value, LF)
           /\ \E k \in KeySet(cache) :
                  Holds(cache, k, <<EQ>> \o n.value)

(* C18: after the driver loop over A,B,C,D,B,A,E on a cache of capacity 3  *)
(* that started empty, key B is in the cache and key A is not, so the      *)
(* final get("B") returns a value and the final get("A") returns None.     *)
DriverFinalAsCommented ==
    /\ (InScenario /\ pc = "report" /\ step = 7) =>
          /\ <<"B">> \in KeySet(cache)
          /\ <<"A">> \notin KeySet(cache)
    /\ (op.name = "report" /\ len(loaded) = 0) =>
          /\ op.value # NoVal
          /\ op.res = NoVal

\* no key occurs twice in the sequence of pairs s
DuplicateFree(s) ==
    \A i, j \in 1..Len(s) : s[i].key = s[j].key => i = j

(* C19: run side by side with the abstract LRU sequence (put moves or      *)
(* inserts the key at the front and drops the last element when over       *)
(* capacity, a get that hits moves the key to the front, a get that misses *)
(* does nothing), the cache's head-to-tail sequence of (key, value) pairs  *)
(* equals the abstract sequence after every operation, and each get        *)
(* returns the same result in both.                                        *)
RefinesAbstractLru ==
    /\ Order(cache) = model.seq
    /\ DuplicateFree(model.seq)
    /\ Len(model.seq) <= cache.capacity
    /\ op.name = "get" => op.res = model.res

\* both caches are full, and a get has just hit an entry that was not the
\* head of a cache of two or more entries
RefinementWitness ==
    /\ op.name = "get" /\ op.res # NoVal
    /\ model.res = op.res
    /\ Len(model.seq) = cache.capacity /\ cache.capacity >= 2
    /\ op.key # HeadKey(pre.cache)
    /\ model.seq[1].key = op.key
    /\ Order(cache) = model.seq

\* one public operation, seen from the state before it to the state after it
LenStep ==
    /\ len(cache') >= len(cache)
    /\ cache'.capacity = cache.capacity
    /\ op'.name = "get" => len(cache') = len(cache)
    /\ op'.name = "put" =>
          /\ len(cache') \in {len(cache), len(cache) + 1}
          /\ len(cache') = len(cache) + 1 <=>
                 (op'.key \notin KeySet(cache) /\ len(cache) < cache.capacity)
    /\ len(cache) = cache.capacity => len(cache') = cache.capacity

(* C20: len() never decreases across a public operation: get leaves it     *)
(* unchanged, put leaves it unchanged or increases it by exactly 1, and    *)
(* once len() = capacity has been reached it equals capacity after every   *)
(* later operation.                                                        *)
LenNeverDecreases == [][LenStep]_vars

\* a put of a new key into a full cache has evicted and inserted: len() is
\* still capacity
LenWitness ==
    /\ op.name = "put"
    /\ pre.cache # NoCache
    /\ len(pre.cache) = pre.cache.capacity
    /\ op.key \notin KeySet(pre.cache)
    /\ op.key \in KeySet(cache)
    /\ len(cache) = cache.capacity /\ cache.capacity >= 2

====
